---- MODULE Spec2Model ----
(***************************************************************************)
(* Model of field_indices.ipynb: the Sentinel-2 scene acquisition and      *)
(* quality pipeline (extract_s2_data) and its driver                       *)
(* (process_shapefiles_in_subfolders).                                     *)
(*                                                                         *)
(* A candidate is one row of mapper.metadata together with the properties  *)
(* of the raster behind it: whether the clipped raster is blackfilled, its *)
(* parcel-level cloudy pixel percentage, and whether loading it or         *)
(* computing an index on it raises.  Timestamps are seconds.               *)
(***************************************************************************)
EXTENDS Integers, Sequences, FiniteSets, TLC

\* ---------------------------------------------------------------- bounds
MaxCands == 2
NumShapefiles == 2

\* ---------------------------------------------------- program constants
DefaultFeatureCloudCoverThreshold == 20
DefaultSpatialResolution == 10
ModifierTargetResolution == 10
SecondsPerMinute == 60
SecondsPerDay == 86400

\* ----------------------------------------------------------- input sets
Timestamps == {0, 30, 86400}
CloudPercentages == {20, 25}
Thresholds == {20, 25}
Resolutions == {10, 20}
Faults == {"none", "fetch", "band"}

Candidate == [sensing_time : Timestamps, is_blackfilled : BOOLEAN,
              cloud_pct : CloudPercentages, fault : Faults]

\* candidate lists the catalog can return: any order, distinct timestamps
CandidateLists ==
  UNION {{c \in [1..n -> Candidate] :
            \A a, b \in 1..n : a # b => c[a].sensing_time # c[b].sensing_time}
         : n \in 0..MaxCands}

NoDate == -1

VARIABLES
  mode,            \* "driver": process_shapefiles_in_subfolders; "direct": a call of extract_s2_data
  pc,              \* position in the program
  shp,             \* number of shapefiles the driver has finished
  feature_cloud_cover_threshold,   \* argument of extract_s2_data
  spatial_resolution,              \* argument of extract_s2_data
  metadata,        \* mapper.metadata: the candidates, in the order returned
  scene_used,      \* the scene_used column of mapper.metadata
  data,            \* mapper.data: the scene collection, in iteration order
  scenes_to_del,   \* list of scene ids to delete
  i,               \* position of the filter loop in mapper.data
  k,               \* position of the driver's export loop in res.data
  error,           \* the exception that ended the run, or "none"
  saveCalls,       \* calls of save_scene_as_geotiff for the current shapefile
  exported,        \* <<date label, scene id>> of the files written
  plotCalls,       \* calls of plot_scenes for the current shapefile
  plotted          \* <<date label, scene id>> of the columns plotted

vars == <<mode, pc, shp, feature_cloud_cover_threshold, spatial_resolution,
          metadata, scene_used, data, scenes_to_del, i, k, error,
          saveCalls, exported, plotCalls, plotted>>

\* ------------------------------------------------------------- helpers

\* strftime('%Y-%m-%d %H:%M')[0:16]: the timestamp truncated to the minute
FmtMinute(t) == t \div SecondsPerMinute

\* strftime('%Y-%m-%d'): the timestamp truncated to the day
FmtDate(t) == t \div SecondsPerDay

\* rows selected by the boolean mask of the .loc assignment for scene_id
MatchingRows(md, scene_id) ==
  {r \in DOMAIN md : FmtMinute(md[r].sensing_time) = FmtMinute(scene_id)}

\* mapper.metadata.loc[<mask>, 'scene_used'] = value
SetSceneUsed(col, md, scene_id, value) ==
  [r \in DOMAIN col |-> IF r \in MatchingRows(md, scene_id) THEN value ELSE col[r]]

\* Sentinel2.from_safe: the scene read for one metadata row
SceneOf(row) ==
  [id |-> row.sensing_time, is_blackfilled |-> row.is_blackfilled,
   cloud_pct |-> row.cloud_pct, fault |-> row.fault,
   resolution |-> 0, masked |-> FALSE, si |-> {}]

\* the scene modifier left out: the scene is handed on as read
preprocess_skipped(ds, target_resolution) == ds

preprocess_sentinel2_scenes(ds, target_resolution) ==
  [ds EXCEPT !.resolution = target_resolution, !.masked = TRUE]

\* scene_kwargs['scene_modifier_kwargs']['target_resolution']
TargetResolution(res) == ModifierTargetResolution

\* the two checks in the opposite order
Decision_CloudFirst(scene, threshold) ==
  IF scene.cloud_pct > threshold THEN "No [clouds]"
  ELSE IF scene.is_blackfilled THEN "No [blackfill]"
  ELSE "yes"

\* the cloud check with >= in place of >
Decision_GreaterEqual(scene, threshold) ==
  IF scene.is_blackfilled THEN "No [blackfill]"
  ELSE IF scene.cloud_pct >= threshold THEN "No [clouds]"
  ELSE "yes"

\* the decision of one loop iteration for one scene
Decision(scene, threshold) ==
  IF scene.is_blackfilled THEN "No [blackfill]"
  ELSE IF scene.cloud_pct > threshold THEN "No [clouds]"
  ELSE "yes"

\* the deletion loop left out: the collection is returned as loaded
DeleteScenes_None(coll, ids) == coll

\* del mapper.data[scene_id] for every scene_id in scenes_to_del
RECURSIVE DeleteScenes(_, _)
DeleteScenes(coll, ids) ==
  IF coll = <<>> THEN <<>>
  ELSE IF \E j \in DOMAIN ids : ids[j] = Head(coll).id
       THEN DeleteScenes(Tail(coll), ids)
       ELSE <<Head(coll)>> \o DeleteScenes(Tail(coll), ids)

\* metadata[metadata['scene_used'] == 'yes']['sensing_date'].tolist()
RECURSIVE SensingDatesUsed(_, _)
SensingDatesUsed(md, col) ==
  IF md = <<>> THEN <<>>
  ELSE (IF Head(col) = "yes" THEN <<FmtDate(Head(md).sensing_time)>> ELSE <<>>)
       \o SensingDatesUsed(Tail(md), Tail(col))

\* sensing_date_string of the idx-th scene of res
DateLabel(md, col, idx) ==
  LET dates == SensingDatesUsed(md, col)
  IN IF idx <= Len(dates) THEN dates[idx] ELSE NoDate

\* the <<label, scene id>> pairs of one pass over enumerate(res)
LabelledScenes(md, col, coll) ==
  {<<DateLabel(md, col, idx), coll[idx].id>> : idx \in DOMAIN coll}

\* the plot attempted whatever the collection holds
HasData_Always(coll) == TRUE

\* `if res.data:`
HasData(coll) == Len(coll) > 0

\* --------------------------------------------------------------- Init

Init ==
  /\ mode \in {"driver", "direct"}
  /\ pc = "call"
  /\ shp = 0
  /\ feature_cloud_cover_threshold \in
       IF mode = "driver" THEN {DefaultFeatureCloudCoverThreshold} ELSE Thresholds
  /\ spatial_resolution \in
       IF mode = "driver" THEN {DefaultSpatialResolution} ELSE Resolutions
  /\ metadata = <<>>
  /\ scene_used = <<>>
  /\ data = <<>>
  /\ scenes_to_del = <<>>
  /\ i = 1
  /\ k = 1
  /\ error = "none"
  /\ saveCalls = 0
  /\ exported = {}
  /\ plotCalls = 0
  /\ plotted = {}

\* ------------------------------------------------------------ actions

\* mapper.query_scenes(): the catalog returns the candidates
query_scenes ==
  /\ pc = "call"
  /\ \E c \in CandidateLists :
       /\ metadata' = c
       /\ scene_used' = [r \in DOMAIN c |-> "unset"]
  /\ data' = <<>>
  /\ scenes_to_del' = <<>>
  /\ i' = 1
  /\ k' = 1
  /\ saveCalls' = 0
  /\ exported' = {}
  /\ plotCalls' = 0
  /\ plotted' = {}
  /\ pc' = "load"
  /\ UNCHANGED <<mode, shp, feature_cloud_cover_threshold, spatial_resolution, error>>

\* mapper.query_scenes() raises: nothing in the program catches it
query_fails ==
  /\ pc = "call"
  /\ pc' = "crashed"
  /\ error' = "CatalogError"
  /\ UNCHANGED <<mode, shp, feature_cloud_cover_threshold, spatial_resolution,
                 metadata, scene_used, data, scenes_to_del, i, k,
                 saveCalls, exported, plotCalls, plotted>>

\* mapper.load_scenes(scene_kwargs): every candidate is read and handed to
\* the scene modifier; a raster that cannot be read raises
load_scenes ==
  /\ pc = "load"
  /\ IF \E r \in DOMAIN metadata : metadata[r].fault = "fetch"
     THEN /\ pc' = "crashed"
          /\ error' = "FetchError"
          /\ UNCHANGED data
     ELSE /\ data' = [r \in DOMAIN metadata |->
                        preprocess_sentinel2_scenes(
                          SceneOf(metadata[r]), TargetResolution(spatial_resolution))]
          /\ pc' = "init"
          /\ UNCHANGED error
  /\ UNCHANGED <<mode, shp, feature_cloud_cover_threshold, spatial_resolution,
                 metadata, scene_used, scenes_to_del, i, k,
                 saveCalls, exported, plotCalls, plotted>>

\* scenes_to_del = []; mapper.metadata['scene_used'] = 'yes'
mark_all_used ==
  /\ pc = "init"
  /\ scenes_to_del' = <<>>
  /\ scene_used' = [r \in DOMAIN metadata |-> "yes"]
  /\ i' = 1
  /\ pc' = "filter"
  /\ UNCHANGED <<mode, shp, feature_cloud_cover_threshold, spatial_resolution,
                 metadata, data, k, error, saveCalls, exported, plotCalls, plotted>>

\* one iteration of `for scene_id, scene in mapper.data`
filter_scene ==
  /\ pc = "filter"
  /\ i <= Len(data)
  /\ LET scene == data[i]
         d == Decision(scene, feature_cloud_cover_threshold)
     IN IF d # "yes"
        THEN /\ scenes_to_del' = Append(scenes_to_del, scene.id)
             /\ scene_used' = SetSceneUsed(scene_used, metadata, scene.id, d)
             /\ i' = i + 1
             /\ UNCHANGED <<data, pc, error>>
        ELSE IF scene.fault = "band"
        THEN \* calc_si('NDVI') succeeds, calc_si('NDRE') raises
             /\ data' = [data EXCEPT ![i].si = {"NDVI"}]
             /\ pc' = "crashed"
             /\ error' = "IndexComputationError"
             /\ UNCHANGED <<scenes_to_del, scene_used, i>>
        ELSE /\ data' = [data EXCEPT ![i].si = {"NDVI", "NDRE", "EVI"}]
             /\ i' = i + 1
             /\ UNCHANGED <<scenes_to_del, scene_used, pc, error>>
  /\ UNCHANGED <<mode, shp, feature_cloud_cover_threshold, spatial_resolution,
                 metadata, k, saveCalls, exported, plotCalls, plotted>>

\* the deletion loop and `return mapper`
delete_scenes ==
  /\ pc = "filter"
  /\ i > Len(data)
  /\ data' = DeleteScenes(data, scenes_to_del)
  /\ pc' = "returned"
  /\ k' = 1
  /\ UNCHANGED <<mode, shp, feature_cloud_cover_threshold, spatial_resolution,
                 metadata, scene_used, scenes_to_del, i, error,
                 saveCalls, exported, plotCalls, plotted>>

\* a direct call of extract_s2_data ends with its return
direct_return ==
  /\ pc = "returned"
  /\ mode = "direct"
  /\ pc' = "finished"
  /\ UNCHANGED <<mode, shp, feature_cloud_cover_threshold, spatial_resolution,
                 metadata, scene_used, data, scenes_to_del, i, k, error,
                 saveCalls, exported, plotCalls, plotted>>

\* one iteration of `for scene_id, scene in res.data: save_scene_as_geotiff(...)`
save_scene_as_geotiff ==
  /\ pc = "returned"
  /\ mode = "driver"
  /\ k <= Len(data)
  /\ saveCalls' = saveCalls + 1
  /\ exported' = exported \cup LabelledScenes(metadata, scene_used, data)
  /\ k' = k + 1
  /\ UNCHANGED <<mode, pc, shp, feature_cloud_cover_threshold, spatial_resolution,
                 metadata, scene_used, data, scenes_to_del, i, error,
                 plotCalls, plotted>>

\* `if res.data: plot_scenes(...)`
plot_scenes ==
  /\ pc = "returned"
  /\ mode = "driver"
  /\ k > Len(data)
  /\ HasData(data)
  /\ plotCalls' = plotCalls + 1
  /\ plotted' = LabelledScenes(metadata, scene_used, data)
  /\ pc' = "next"
  /\ UNCHANGED <<mode, shp, feature_cloud_cover_threshold, spatial_resolution,
                 metadata, scene_used, data, scenes_to_del, i, k, error,
                 saveCalls, exported>>

\* `else: print("No data available ...")`
no_data_available ==
  /\ pc = "returned"
  /\ mode = "driver"
  /\ k > Len(data)
  /\ ~HasData(data)
  /\ pc' = "next"
  /\ UNCHANGED <<mode, shp, feature_cloud_cover_threshold, spatial_resolution,
                 metadata, scene_used, data, scenes_to_del, i, k, error,
                 saveCalls, exported, plotCalls, plotted>>

\* `for shp_file in shapefiles`: the next shapefile, or the end of the driver;
\* res and metadata of the finished shapefile are dropped
next_shapefile ==
  /\ pc = "next"
  /\ shp' = shp + 1
  /\ pc' = IF shp + 1 < NumShapefiles THEN "call" ELSE "finished"
  /\ metadata' = <<>>
  /\ scene_used' = <<>>
  /\ data' = <<>>
  /\ scenes_to_del' = <<>>
  /\ i' = 1
  /\ k' = 1
  /\ saveCalls' = 0
  /\ exported' = {}
  /\ plotCalls' = 0
  /\ plotted' = {}
  /\ UNCHANGED <<mode, feature_cloud_cover_threshold, spatial_resolution, error>>

Next ==
  \/ query_scenes
  \/ query_fails
  \/ load_scenes
  \/ mark_all_used
  \/ filter_scene
  \/ delete_scenes
  \/ direct_return
  \/ save_scene_as_geotiff
  \/ plot_scenes
  \/ no_data_available
  \/ next_shapefile

Spec == Init /\ [][Next]_vars

\* ------------------------------------------------------------- claims

CountStatus(value) == Cardinality({r \in DOMAIN scene_used : scene_used[r] = value})

\* the rows of the scene with this id
OwnRows(md, scene_id) == {r \in DOMAIN md : md[r].sensing_time = scene_id}

SceneIds(coll) == {coll[j].id : j \in DOMAIN coll}

\* C1: when extract_s2_data has returned, the scenes kept plus the rows
\* recorded under each rejection status add up to the rows of the metadata
\* table.
C1_DispositionCount ==
  pc = "returned" =>
    Len(data) + CountStatus("No [blackfill]") + CountStatus("No [clouds]")
      + CountStatus("rejected_fetch_error") + CountStatus("rejected_missing_bands")
    = Len(metadata)

\* C2: when extract_s2_data has returned, every scene of the kept collection
\* has scene_used = 'yes' in its metadata row, and no scene listed for
\* deletion as blackfilled or too cloudy is in the kept collection.
C2_KeptScenesAreUsed ==
  pc = "returned" =>
    /\ \A j \in DOMAIN data : \A r \in OwnRows(metadata, data[j].id) :
         scene_used[r] = "yes"
    /\ \A d \in DOMAIN scenes_to_del : scenes_to_del[d] \notin SceneIds(data)

C5_SceneFailureNeverAborts ==
  /\ pc = "crashed" => error = "CatalogError"
  /\ pc = "returned" =>
       \A r \in DOMAIN metadata :
         /\ metadata[r].fault = "fetch" => scene_used[r] = "rejected_fetch_error"
         /\ (metadata[r].fault = "band" /\ Decision(SceneOf(metadata[r]),
                                             feature_cloud_cover_threshold) = "yes")
              => /\ scene_used[r] = "rejected_missing_bands"
                 /\ metadata[r].sensing_time \notin SceneIds(data)

\* C6: when extract_s2_data has returned an empty kept collection to the
\* driver, no save_scene_as_geotiff and no plot_scenes call has been or is
\* made for that shapefile, nothing is raised, and the driver goes on to the
\* next shapefile (or ends after the last one).
C6_EmptySeriesSkipped ==
  [][(mode = "driver" /\ pc \in {"returned", "next"} /\ data = <<>>) =>
       /\ saveCalls = 0 /\ plotCalls = 0
       /\ exported = {} /\ plotted = {}
       /\ saveCalls' = 0 /\ plotCalls' = 0
       /\ exported' = {} /\ plotted' = {}
       /\ error' = "none"
       /\ pc = "returned" => pc' = "next"
       /\ pc = "next" => shp' = shp + 1 /\ pc' \in {"call", "finished"}
    ]_vars

C6_Witness ==
  /\ mode = "driver"
  /\ pc = "next"
  /\ Len(metadata) > 1
  /\ data = <<>>
  /\ saveCalls = 0
  /\ plotCalls = 0

\* C7: when extract_s2_data has returned, the kept collection is in ascending
\* order of acquisition timestamp.
C7_KeptAscending ==
  pc = "returned" =>
    \A a, b \in DOMAIN data : a < b => data[a].id <= data[b].id

\* C8: once a row's scene_used has a value, no later step of the same run
\* gives that row another value.
C8_StatusWrittenOnce ==
  [][pc # "call" =>
       \A r \in DOMAIN scene_used :
         scene_used[r] # "unset" =>
           r \in DOMAIN scene_used' /\ scene_used'[r] = scene_used[r]
    ]_vars

C10_TargetResolutionIsParameter ==
  \A j \in DOMAIN data : data[j].resolution = spatial_resolution

\* C11: while the filter loop runs no scene has been removed from the
\* collection and no index has been computed on a scene the loop rejects
\* (also when the run ends in an exception); when extract_s2_data has
\* returned, every scene of the kept collection carries NDVI, NDRE and EVI
\* and none of them is listed for deletion.
C11_KeptScenesCarryIndices ==
  /\ pc = "filter" =>
       /\ Len(data) = Len(metadata)
       /\ \A d \in DOMAIN scenes_to_del : scenes_to_del[d] \in SceneIds(data)
  /\ pc \in {"filter", "crashed"} =>
       \A j \in DOMAIN data :
         (\/ Decision(data[j], feature_cloud_cover_threshold) # "yes"
          \/ \E d \in DOMAIN scenes_to_del : scenes_to_del[d] = data[j].id)
           => data[j].si = {}
  /\ pc \in {"returned", "next"} =>
       \A j \in DOMAIN data :
         /\ data[j].si = {"NDVI", "NDRE", "EVI"}
         /\ \A d \in DOMAIN scenes_to_del : scenes_to_del[d] # data[j].id

C11_Witness ==
  /\ pc = "returned"
  /\ Len(data) > 0
  /\ Len(scenes_to_del) > 0
  /\ Len(data) + Len(scenes_to_del) = Len(metadata)
  /\ \A j \in DOMAIN data : data[j].si = {"NDVI", "NDRE", "EVI"}

\* the sensing times of the rows with scene_used == 'yes', in table order
RECURSIVE UsedRowTimes(_, _)
UsedRowTimes(md, col) ==
  IF md = <<>> THEN <<>>
  ELSE (IF Head(col) = "yes" THEN <<Head(md).sensing_time>> ELSE <<>>)
       \o UsedRowTimes(Tail(md), Tail(col))

\* C12: when extract_s2_data has returned, the rows with scene_used == 'yes'
\* are as many as the kept scenes and the idx-th of them is the row of the
\* idx-th kept scene; every file written and every column plotted carries the
\* sensing date of its own scene, never the label "No Date".
C12_DatesAlignWithScenes ==
  pc \in {"returned", "next"} =>
    /\ Len(UsedRowTimes(metadata, scene_used)) = Len(data)
    /\ \A idx \in DOMAIN data :
         UsedRowTimes(metadata, scene_used)[idx] = data[idx].id
    /\ \A p \in exported \cup plotted :
         p[1] # NoDate /\ p[1] = FmtDate(p[2])

====
